---- MODULE Spec2Model ----
(***************************************************************************)
(* A model of PyInputPlus' generic prompt / validate / retry loop          *)
(* (_genericInput) and of its bound-check helper (_checkLimitAndTimeout).  *)
(*                                                                         *)
(* Python values are records tagged with their Python type, so that the    *)
(* isinstance() checks of the code can be modelled as they are written.    *)
(* Text is a sequence of one-character strings.                            *)
(***************************************************************************)
EXTENDS Integers, Sequences, FiniteSets, TLC

(***************************************************************************)
(* Bounds of the model.                                                    *)
(***************************************************************************)
MaxTimeout == 1
MaxLimit == 2
\* the clock can run past the largest timeout
MaxTime == MaxTimeout + 1
\* a session without a limit is cut after MaxReads lines
MaxReads == MaxLimit + 1

(***************************************************************************)
(* Python values.                                                          *)
(***************************************************************************)
NoneV == [type |-> "NoneType"]
StrV(s) == [type |-> "str", val |-> s]
IntV(n) == [type |-> "int", val |-> n]
BoolV(b) == [type |-> "bool", val |-> b]
FuncV(n) == [type |-> "function", name |-> n]
\* the float mant / 10^exp
FloatV(mant, exp) == [type |-> "float", mant |-> mant, exp |-> exp]
ExcV(cls) == [type |-> cls]

isNone(v) == v.type = "NoneType"
isException(v) == v.type \in {"TimeoutException", "RetryLimitException"}

\* lines 23-37: the base class each exception class is declared with
\* (TypeError and Exception are Python's own)
BaseClass(cls) ==
    CASE cls = "PyInputPlusException" -> "Exception"
      [] cls = "TimeoutException"     -> "Exception"
      [] cls = "RetryLimitException"  -> "Exception"
      [] cls = "ValidationException"  -> "Exception"
      [] cls = "TypeError"            -> "Exception"
      [] cls = "ValueError"           -> "Exception"
      [] cls = "Exception"            -> "BaseException"
      [] OTHER                        -> "object"

\* isinstance(v, cls) for an exception object v
RECURSIVE isSubclass(_, _)
isSubclass(c, cls) ==
    IF c = cls THEN TRUE
    ELSE IF c = "object" THEN FALSE
    ELSE isSubclass(BaseClass(c), cls)

isInstance(v, cls) == isSubclass(v.type, cls)

\* the characters that str.strip() without argument removes
Whitespace == {" "}

(***************************************************************************)
(* The lines the user may type.                                            *)
(***************************************************************************)
Lines == { <<>>, <<" ">>, <<"4">>, <<"a">>, <<" ", "4">>, <<"a", "4">> }

(***************************************************************************)
(* Caller-supplied callables.  A validation function accepts a set of      *)
(* candidates and raises on every other one.                               *)
(***************************************************************************)
Accepted(name) ==
    CASE name = "rejectAll"     -> {}
      [] name = "accept4"       -> { <<"4">> }
      [] name = "acceptBlank4"  -> { <<>>, <<"4">> }

RECURSIVE replaceA4(_)
replaceA4(s) ==
    IF s = <<>> THEN <<>>
    ELSE <<(IF Head(s) = "a" THEN "4" ELSE Head(s))>> \o replaceA4(Tail(s))

\* the value of f(s) for a transform f
CallFunc(f, s) ==
    CASE f.name = "toEmpty"   -> <<>>
      [] f.name = "replaceA4" -> replaceA4(s)
      [] f.name = "double"    -> s \o s

(***************************************************************************)
(* str.strip(chars)                                                        *)
(***************************************************************************)
RECURSIVE lstrip(_, _)
lstrip(s, chars) ==
    IF s # <<>> /\ Head(s) \in chars THEN lstrip(Tail(s), chars) ELSE s

RECURSIVE rstrip(_, _)
rstrip(s, chars) ==
    IF s # <<>> /\ s[Len(s)] \in chars
    THEN rstrip(SubSeq(s, 1, Len(s) - 1), chars)
    ELSE s

pystrip(s, chars) == rstrip(lstrip(s, chars), chars)

\* the characters of a text
charsOf(s) == { s[i] : i \in 1..Len(s) }

(***************************************************************************)
(* The configurations a caller may pass.                                   *)
(***************************************************************************)
Defaults == { NoneV, StrV(<<>>), StrV(<<"9">>) }
Timeouts == { NoneV } \cup { IntV(n) : n \in 0..MaxTimeout }
Limits == { NoneV } \cup { IntV(n) : n \in -1..MaxLimit }
Strips == { NoneV, BoolV(TRUE), BoolV(FALSE), StrV(<<"a">>) }
ApplyFuncs == { NoneV, FuncV("toEmpty"), FuncV("replaceA4") }
ValidationFuncs == { FuncV("rejectAll"), FuncV("accept4"), FuncV("acceptBlank4") }
\* postValidateApplyFunc=5 is a value that is not callable
PostFuncs == { NoneV, FuncV("double"), IntV(5) }

\* the configurations that pass the parameter checks
WellTyped ==
    [ prompt : { StrV(<<"?">>) }, default : Defaults, blank : BOOLEAN,
      timeout : Timeouts, limit : Limits, strip : Strips,
      applyFunc : ApplyFuncs, validationFunc : ValidationFuncs,
      postValidateApplyFunc : PostFuncs ]

BaseConfig ==
    [ prompt |-> StrV(<<"?">>), default |-> NoneV, blank |-> FALSE,
      timeout |-> NoneV, limit |-> NoneV, strip |-> BoolV(TRUE),
      applyFunc |-> NoneV, validationFunc |-> FuncV("accept4"),
      postValidateApplyFunc |-> NoneV ]

\* one argument of the wrong type each
IllTyped ==
    { [BaseConfig EXCEPT !.prompt = IntV(7)],
      [BaseConfig EXCEPT !.default = IntV(9)],
      [BaseConfig EXCEPT !.timeout = StrV(<<"4">>)],
      [BaseConfig EXCEPT !.limit = StrV(<<"4">>)],
      [BaseConfig EXCEPT !.strip = IntV(1)],
      [BaseConfig EXCEPT !.validationFunc = NoneV],
      [BaseConfig EXCEPT !.applyFunc = IntV(5)],
      [BaseConfig EXCEPT !.applyFunc = IntV(5), !.postValidateApplyFunc = IntV(5)] }

\* calls with the default " a", which stripping and each transform would
\* change
ChangeableDefault ==
    [ prompt : { StrV(<<"?">>) }, default : { StrV(<<" ", "a">>) },
      blank : { FALSE }, timeout : Timeouts, limit : Limits,
      strip : { BoolV(TRUE), StrV(<<"a">>) },
      applyFunc : { NoneV, FuncV("replaceA4") },
      validationFunc : ValidationFuncs,
      postValidateApplyFunc : { NoneV, FuncV("double") } ]

Configs == WellTyped \cup IllTyped \cup ChangeableDefault

(***************************************************************************)
(* _genericInput, lines 113-127: the parameter checks.  The result is the  *)
(* message of the PyInputPlusException raised, or "ok".                    *)
(***************************************************************************)
validateParameters(c) ==
    IF c.prompt.type # "str"
    THEN "prompt argument must be a str"
    ELSE IF c.default.type \notin {"str", "NoneType"}
    THEN "default argument must be a str or None"
    ELSE IF c.timeout.type \notin {"int", "bool", "float", "NoneType"}
    THEN "timeout argument must be an int or float"
    ELSE IF c.limit.type \notin {"int", "bool", "NoneType"}
    THEN "limit argument must be an int"
    ELSE IF c.strip.type \notin {"str", "NoneType", "bool"}
    THEN "strip argument must be a str, None, or bool"
    ELSE IF c.validationFunc.type # "function"
    THEN "validationFunc argument must be a function"
    ELSE IF c.applyFunc.type \notin {"function", "NoneType"}
    THEN "applyFunc argument must be a function"
    ELSE "ok"

(***************************************************************************)
(* _checkLimitAndTimeout.  now is the value time.time() returns when the   *)
(* helper runs.  The result is the default, an exception object that the   *)
(* caller raises, or None.                                                 *)
(***************************************************************************)
\* variant: the attempt limit fires one attempt late (tries > limit)
checkLimitAndTimeout_lateLimit(default, startTime, timeout, tries, limit, now) ==
    IF ~isNone(timeout) /\ startTime + timeout.val < now
    THEN IF ~isNone(default) THEN default ELSE ExcV("TimeoutException")
    ELSE IF ~isNone(limit) /\ tries > limit.val
    THEN IF ~isNone(default) THEN default ELSE ExcV("RetryLimitException")
    ELSE NoneV

\* variant: the attempt limit raises although a default is set
checkLimitAndTimeout_limitIgnoresDefault(default, startTime, timeout, tries, limit, now) ==
    IF ~isNone(timeout) /\ startTime + timeout.val < now
    THEN IF ~isNone(default) THEN default ELSE ExcV("TimeoutException")
    ELSE IF ~isNone(limit) /\ tries >= limit.val
    THEN ExcV("RetryLimitException")
    ELSE NoneV

\* variant: the timeout fires one second late
checkLimitAndTimeout_lateTimeout(default, startTime, timeout, tries, limit, now) ==
    IF ~isNone(timeout) /\ startTime + timeout.val + 1 < now
    THEN IF ~isNone(default) THEN default ELSE ExcV("TimeoutException")
    ELSE IF ~isNone(limit) /\ tries >= limit.val
    THEN IF ~isNone(default) THEN default ELSE ExcV("RetryLimitException")
    ELSE NoneV

\* variant: the attempt limit is tested before the timeout
checkLimitAndTimeout_limitFirst(default, startTime, timeout, tries, limit, now) ==
    IF ~isNone(limit) /\ tries >= limit.val
    THEN IF ~isNone(default) THEN default ELSE ExcV("RetryLimitException")
    ELSE IF ~isNone(timeout) /\ startTime + timeout.val < now
    THEN IF ~isNone(default) THEN default ELSE ExcV("TimeoutException")
    ELSE NoneV

\* variant: the timeout fires as soon as the elapsed time equals it
checkLimitAndTimeout_inclusiveTimeout(default, startTime, timeout, tries, limit, now) ==
    IF ~isNone(timeout) /\ startTime + timeout.val <= now
    THEN IF ~isNone(default) THEN default ELSE ExcV("TimeoutException")
    ELSE IF ~isNone(limit) /\ tries >= limit.val
    THEN IF ~isNone(default) THEN default ELSE ExcV("RetryLimitException")
    ELSE NoneV

\* variant: a limit of 0 counts as no limit ("if limit and tries >= limit")
checkLimitAndTimeout_limitTruthy(default, startTime, timeout, tries, limit, now) ==
    IF ~isNone(timeout) /\ startTime + timeout.val < now
    THEN IF ~isNone(default) THEN default ELSE ExcV("TimeoutException")
    ELSE IF ~isNone(limit) /\ limit.val # 0 /\ tries >= limit.val
    THEN IF ~isNone(default) THEN default ELSE ExcV("RetryLimitException")
    ELSE NoneV

\* variant: an absent limit counts as a limit of one attempt
checkLimitAndTimeout_absentLimitIsOne(default, startTime, timeout, tries, limit, now) ==
    IF ~isNone(timeout) /\ startTime + timeout.val < now
    THEN IF ~isNone(default) THEN default ELSE ExcV("TimeoutException")
    ELSE IF (IF isNone(limit) THEN tries >= 1 ELSE tries >= limit.val)
    THEN IF ~isNone(default) THEN default ELSE ExcV("RetryLimitException")
    ELSE NoneV

checkLimitAndTimeout(default, startTime, timeout, tries, limit, now) ==
    IF ~isNone(timeout) /\ startTime + timeout.val < now
    THEN IF ~isNone(default) THEN default ELSE ExcV("TimeoutException")
    ELSE IF ~isNone(limit) /\ tries >= limit.val
    THEN IF ~isNone(default) THEN default ELSE ExcV("RetryLimitException")
    ELSE NoneV

(***************************************************************************)
(* _genericInput, lines 139-144: the strip policy.                         *)
(***************************************************************************)
stripInput(strip, userInput) ==
    IF ~isNone(strip)
    THEN IF strip = BoolV(TRUE)
         THEN pystrip(userInput, Whitespace)
         ELSE IF strip # BoolV(FALSE)
         THEN pystrip(userInput, charsOf(strip.val))
         ELSE userInput
    ELSE userInput

\* variant: blank input is never answered with the default
returnsDefault_never(default, userInput) == FALSE

\* variant: blank input ends the session also when no default is set
returnsDefault_withoutDefault(default, userInput) == userInput = <<>>

\* line 147: the blank input that is answered with the default
returnsDefault(default, userInput) == userInput = <<>> /\ ~isNone(default)

\* lines 151-152: the pre-validation transform
applyTransform(applyFunc, userInput) ==
    IF ~isNone(applyFunc) THEN CallFunc(applyFunc, userInput) ELSE userInput

(***************************************************************************)
(* Numbers as text.  A number is written with the digits below; int() and  *)
(* float() raise ValueError on every other text, the empty one included.   *)
(***************************************************************************)
Digits == { "1", "5", "7" }

digitValue(c) == CASE c = "1" -> 1 [] c = "5" -> 5 [] c = "7" -> 7

isNumber(s) == s # <<>> /\ \A i \in 1..Len(s) : s[i] \in Digits

RECURSIVE parseInt(_)
parseInt(s) ==
    IF s = <<>> THEN 0
    ELSE 10 * parseInt(SubSeq(s, 1, Len(s) - 1)) + digitValue(s[Len(s)])

RECURSIVE Pow10(_)
Pow10(n) == IF n = 0 THEN 1 ELSE 10 * Pow10(n - 1)

\* the positions of the decimal point
dots(s) == { i \in 1..Len(s) : s[i] = "." }
\* the text without its decimal point
removeDot(s) == SelectSeq(s, LAMBDA c : c # ".")
\* the number of digits after the decimal point
fracDigits(s) == IF dots(s) = {} THEN 0 ELSE Len(s) - (CHOOSE i \in dots(s) : TRUE)

\* the texts float() converts: digits with at most one decimal point and
\* at least one digit, surrounding whitespace ignored
isFloatText(s) ==
    LET t == pystrip(s, Whitespace) IN
    /\ Cardinality(dots(t)) <= 1
    /\ \A i \in 1..Len(t) : t[i] \in Digits \cup {"."}
    /\ \E i \in 1..Len(t) : t[i] \in Digits

\* float(s): the float, or the ValueError it raises
pyFloat(s) ==
    LET t == pystrip(s, Whitespace) IN
    IF isFloatText(s) THEN FloatV(parseInt(removeDot(t)), fracDigits(t))
    ELSE ExcV("ValueError")

\* int(s): the int, or the ValueError it raises
pyInt(s) ==
    LET t == pystrip(s, Whitespace) IN
    IF isNumber(t) THEN IntV(parseInt(t)) ELSE ExcV("ValueError")

\* pysv.validateNum(value, blank=, min=, max=, _numType=), the rule the
\* numeric wrappers bind: TRUE when it returns, FALSE when it raises.  The
\* empty text passes when blank is allowed; any other text passes when it
\* is a number of the type asked for (a whole number for 'int', a decimal
\* for 'num' and 'float') within the bounds that are given.
validateNum(value, blank, min, max, numType) ==
    LET f == pyFloat(value) IN
    IF value = <<>> THEN blank
    ELSE IF ~(IF numType = "int" THEN isNumber(value) ELSE isFloatText(value))
    THEN FALSE
    ELSE /\ (IF isNone(min) THEN TRUE ELSE f.mant >= min.val * Pow10(f.exp))
         /\ (IF isNone(max) THEN TRUE ELSE f.mant <= max.val * Pow10(f.exp))

\* the answers validateYesNo accepts with yes='yes', no='no'
YesNoTexts == { <<"y">>, <<"y", "e", "s">>, <<"n">>, <<"n", "o">> }

\* pysv.validateYesNo(value, blank=), the rule inputYesNo binds
validateYesNo(value, blank) ==
    IF value = <<>> THEN blank ELSE value \in YesNoTexts

\* line 158: TRUE when validationFunc(userInput) returns, FALSE when it raises
validates(validationFunc, userInput) ==
    IF validationFunc.name = "validateNum"
    THEN validateNum(userInput, validationFunc.blank, validationFunc.min,
                     validationFunc.max, validationFunc.numType)
    ELSE IF validationFunc.name = "validateYesNo"
    THEN validateYesNo(userInput, validationFunc.blank)
    ELSE userInput \in Accepted(validationFunc.name)

\* lines 158-159: the exception validationFunc raises for a candidate it
\* rejects, caught as exc
validationError(validationFunc, userInput) == ExcV("ValidationException")

\* variant: the reason is printed on every rejection
reasonPrinted_always(checkResult) == << "reason" >>

\* variant: the reason is printed also before a signal is raised
reasonPrinted_beforeSignal(checkResult) ==
    IF isNone(checkResult) \/ isException(checkResult)
    THEN << "reason" >> ELSE << >>

\* lines 164-165: what print(exc) writes; it runs when no bound is reached
reasonPrinted(checkResult) ==
    IF isNone(checkResult) THEN << "reason" >> ELSE << >>

\* variant: the accepted candidate is returned without the transform
postValidate_skipped(postValidateApplyFunc, userInput) == StrV(userInput)

\* lines 170-173: the value returned for an accepted candidate
postValidate(postValidateApplyFunc, userInput) ==
    IF ~isNone(postValidateApplyFunc)
    THEN StrV(CallFunc(postValidateApplyFunc, userInput))
    ELSE StrV(userInput)

(***************************************************************************)
(* The state of one call of _genericInput.                                 *)
(*   cfg        the arguments of the call                                  *)
(*   pc         "init" before the call, "input" while input() blocks,      *)
(*              "done" after the return or the raise                       *)
(*   now        the clock, time.time()                                     *)
(*   startTime, tries, userInput   the locals of the function              *)
(*   rawInput   the line the last input() returned                         *)
(*   output     what has been printed: "prompt" and "reason" items         *)
(*   outcome    "none", "value" (accepted candidate returned), "default"   *)
(*              (default returned) or "exception"                          *)
(*   result     the value returned or the exception raised                 *)
(*   reads, applyCalls, validCalls, postCalls, rejections, boundChecks     *)
(*              count the calls of input(), applyFunc, validationFunc,     *)
(*              postValidateApplyFunc, the exceptions validationFunc       *)
(*              raised and the calls of _checkLimitAndTimeout              *)
(***************************************************************************)
VARIABLES cfg, pc, now, startTime, tries, rawInput, userInput, output,
          outcome, result,
          reads, applyCalls, validCalls, postCalls, rejections, boundChecks

vars == << cfg, pc, now, startTime, tries, rawInput, userInput, output,
           outcome, result,
           reads, applyCalls, validCalls, postCalls, rejections, boundChecks >>

counters == << reads, applyCalls, validCalls, postCalls, rejections, boundChecks >>

Init ==
    /\ cfg \in Configs
    /\ pc = "init"
    /\ now = 0
    /\ startTime = 0
    /\ tries = 0
    /\ rawInput = <<>>
    /\ userInput = <<>>
    /\ output = <<>>
    /\ outcome = "none"
    /\ result = NoneV
    /\ reads = 0
    /\ applyCalls = 0
    /\ validCalls = 0
    /\ postCalls = 0
    /\ rejections = 0
    /\ boundChecks = 0

(***************************************************************************)
(* The call of _genericInput up to the first input(): lines 110-135.       *)
(***************************************************************************)
Call ==
    /\ pc = "init"
    /\ IF validateParameters(cfg) # "ok"
       THEN /\ pc' = "done"
            /\ outcome' = "exception"
            /\ result' = ExcV("PyInputPlusException")
            /\ UNCHANGED << startTime, tries, output >>
       ELSE /\ startTime' = now
            /\ tries' = 0
            /\ output' = Append(output, "prompt")
            /\ pc' = "input"
            /\ UNCHANGED << outcome, result >>
    /\ UNCHANGED << cfg, now, rawInput, userInput, counters >>

(***************************************************************************)
(* Time passes while input() blocks.                                       *)
(***************************************************************************)
\* variant: the timeout interrupts the blocked input()
Tick_interrupts ==
    /\ pc = "input"
    /\ now < MaxTime
    /\ now' = now + 1
    /\ IF ~isNone(cfg.timeout) /\ startTime + cfg.timeout.val < now'
       THEN /\ pc' = "done"
            /\ outcome' = "exception"
            /\ result' = ExcV("TimeoutException")
       ELSE UNCHANGED << pc, outcome, result >>
    /\ UNCHANGED << cfg, startTime, tries, rawInput, userInput, output,
                    counters >>

Tick ==
    /\ pc = "input"
    /\ now < MaxTime
    /\ now' = now + 1
    /\ UNCHANGED << cfg, pc, startTime, tries, rawInput, userInput, output,
                    outcome, result, counters >>

(***************************************************************************)
(* input() returns line: the rest of the iteration, lines 135-173, and     *)
(* for a retry the prompt of the next iteration, line 134.                 *)
(***************************************************************************)
\* variant: the default goes through the post-validation transform
BlankDefault_postApplied(line) ==
    LET stripped == stripInput(cfg.strip, line)
        post == cfg.postValidateApplyFunc
    IN
    /\ pc = "input"
    /\ reads < MaxReads
    /\ returnsDefault(cfg.default, stripped)
    /\ tries' = tries + 1
    /\ reads' = reads + 1
    /\ rawInput' = line
    /\ userInput' = stripped
    /\ pc' = "done"
    /\ outcome' = "default"
    /\ result' = IF post.type = "function"
                 THEN postValidate(post, cfg.default.val) ELSE cfg.default
    /\ UNCHANGED << cfg, now, startTime, output, applyCalls, validCalls,
                    postCalls, rejections, boundChecks >>

\* line 147-148: blank input, default set
BlankDefault(line) ==
    LET stripped == stripInput(cfg.strip, line) IN
    /\ pc = "input"
    /\ reads < MaxReads
    /\ returnsDefault(cfg.default, stripped)
    /\ tries' = tries + 1
    /\ reads' = reads + 1
    /\ rawInput' = line
    /\ userInput' = stripped
    /\ pc' = "done"
    /\ outcome' = "default"
    /\ result' = cfg.default
    /\ UNCHANGED << cfg, now, startTime, output, applyCalls, validCalls,
                    postCalls, rejections, boundChecks >>

\* lines 157-158, 170-173: validationFunc returns
Accept(line) ==
    LET stripped == stripInput(cfg.strip, line)
        candidate == applyTransform(cfg.applyFunc, stripped)
        post == cfg.postValidateApplyFunc
    IN
    /\ pc = "input"
    /\ reads < MaxReads
    /\ ~returnsDefault(cfg.default, stripped)
    /\ validates(cfg.validationFunc, candidate)
    /\ tries' = tries + 1
    /\ reads' = reads + 1
    /\ rawInput' = line
    /\ userInput' = candidate
    /\ applyCalls' = applyCalls + (IF isNone(cfg.applyFunc) THEN 0 ELSE 1)
    /\ validCalls' = validCalls + 1
    /\ pc' = "done"
    /\ IF ~isNone(post) /\ post.type # "function"
       THEN \* calling a value that is not callable raises TypeError
            /\ outcome' = "exception"
            /\ result' = ExcV("TypeError")
            /\ UNCHANGED postCalls
       ELSE /\ outcome' = "value"
            /\ result' = postValidate(post, candidate)
            /\ postCalls' = postCalls + (IF isNone(post) THEN 0 ELSE 1)
    /\ UNCHANGED << cfg, now, startTime, output, rejections, boundChecks >>

\* variant: when a bound is reached the exception of validationFunc is raised
Reject_reraises(line) ==
    LET stripped == stripInput(cfg.strip, line)
        candidate == applyTransform(cfg.applyFunc, stripped)
        checkResult == checkLimitAndTimeout(cfg.default, startTime, cfg.timeout,
                                            tries + 1, cfg.limit, now)
    IN
    /\ pc = "input"
    /\ reads < MaxReads
    /\ ~returnsDefault(cfg.default, stripped)
    /\ ~validates(cfg.validationFunc, candidate)
    /\ tries' = tries + 1
    /\ reads' = reads + 1
    /\ rawInput' = line
    /\ userInput' = candidate
    /\ applyCalls' = applyCalls + (IF isNone(cfg.applyFunc) THEN 0 ELSE 1)
    /\ validCalls' = validCalls + 1
    /\ rejections' = rejections + 1
    /\ boundChecks' = boundChecks + 1
    /\ IF ~isNone(checkResult) /\ ~isException(checkResult)
       THEN /\ pc' = "done"
            /\ outcome' = "default"
            /\ result' = checkResult
            /\ output' = output \o reasonPrinted(checkResult)
       ELSE IF isNone(checkResult)
       THEN \* continue: the next iteration prints the prompt and blocks
            /\ pc' = "input"
            /\ output' = output \o reasonPrinted(checkResult) \o << "prompt" >>
            /\ UNCHANGED << outcome, result >>
       ELSE /\ pc' = "done"
            /\ outcome' = "exception"
            /\ result' = validationError(cfg.validationFunc, candidate)
            /\ output' = output \o reasonPrinted(checkResult)
    /\ UNCHANGED << cfg, now, startTime, postCalls >>

\* variant: the timer is restarted on every rejected attempt
Reject_restartsTimer(line) ==
    LET stripped == stripInput(cfg.strip, line)
        candidate == applyTransform(cfg.applyFunc, stripped)
        checkResult == checkLimitAndTimeout(cfg.default, startTime, cfg.timeout,
                                            tries + 1, cfg.limit, now)
    IN
    /\ pc = "input"
    /\ reads < MaxReads
    /\ ~returnsDefault(cfg.default, stripped)
    /\ ~validates(cfg.validationFunc, candidate)
    /\ tries' = tries + 1
    /\ reads' = reads + 1
    /\ rawInput' = line
    /\ userInput' = candidate
    /\ applyCalls' = applyCalls + (IF isNone(cfg.applyFunc) THEN 0 ELSE 1)
    /\ validCalls' = validCalls + 1
    /\ rejections' = rejections + 1
    /\ boundChecks' = boundChecks + 1
    /\ IF ~isNone(checkResult) /\ ~isException(checkResult)
       THEN /\ pc' = "done"
            /\ outcome' = "default"
            /\ result' = checkResult
            /\ output' = output \o reasonPrinted(checkResult)
       ELSE IF isNone(checkResult)
       THEN \* continue: the next iteration prints the prompt and blocks
            /\ pc' = "input"
            /\ output' = output \o reasonPrinted(checkResult) \o << "prompt" >>
            /\ UNCHANGED << outcome, result >>
       ELSE /\ pc' = "done"
            /\ outcome' = "exception"
            /\ result' = checkResult
            /\ output' = output \o reasonPrinted(checkResult)
    /\ startTime' = now
    /\ UNCHANGED << cfg, now, postCalls >>

\* lines 159-168: validationFunc raises
Reject(line) ==
    LET stripped == stripInput(cfg.strip, line)
        candidate == applyTransform(cfg.applyFunc, stripped)
        checkResult == checkLimitAndTimeout(cfg.default, startTime, cfg.timeout,
                                            tries + 1, cfg.limit, now)
    IN
    /\ pc = "input"
    /\ reads < MaxReads
    /\ ~returnsDefault(cfg.default, stripped)
    /\ ~validates(cfg.validationFunc, candidate)
    /\ tries' = tries + 1
    /\ reads' = reads + 1
    /\ rawInput' = line
    /\ userInput' = candidate
    /\ applyCalls' = applyCalls + (IF isNone(cfg.applyFunc) THEN 0 ELSE 1)
    /\ validCalls' = validCalls + 1
    /\ rejections' = rejections + 1
    /\ boundChecks' = boundChecks + 1
    /\ IF ~isNone(checkResult) /\ ~isException(checkResult)
       THEN /\ pc' = "done"
            /\ outcome' = "default"
            /\ result' = checkResult
            /\ output' = output \o reasonPrinted(checkResult)
       ELSE IF isNone(checkResult)
       THEN \* continue: the next iteration prints the prompt and blocks
            /\ pc' = "input"
            /\ output' = output \o reasonPrinted(checkResult) \o << "prompt" >>
            /\ UNCHANGED << outcome, result >>
       ELSE /\ pc' = "done"
            /\ outcome' = "exception"
            /\ result' = checkResult
            /\ output' = output \o reasonPrinted(checkResult)
    /\ UNCHANGED << cfg, now, startTime, postCalls >>

Next ==
    \/ Call
    \/ Tick
    \/ \E line \in Lines : BlankDefault(line)
    \/ \E line \in Lines : Accept(line)
    \/ \E line \in Lines : Reject(line)

Spec == Init /\ [][Next]_vars

(***************************************************************************)
(* _checkLimitAndTimeout called on its own: the five arguments are fixed   *)
(* and the helper is called again and again while the clock runs.  result  *)
(* holds what the last call returned, boundChecks counts the calls.        *)
(***************************************************************************)
HelperArgs ==
    { [BaseConfig EXCEPT !.default = d, !.timeout = t, !.limit = l] :
        d \in Defaults, t \in Timeouts, l \in Limits }

InitHelper ==
    /\ cfg \in HelperArgs
    /\ pc = "helper"
    /\ startTime \in 0..1
    /\ now = startTime
    /\ tries \in 0..MaxReads
    /\ rawInput = <<>>
    /\ userInput = <<>>
    /\ output = <<>>
    /\ outcome = "none"
    /\ result = NoneV
    /\ reads = 0
    /\ applyCalls = 0
    /\ validCalls = 0
    /\ postCalls = 0
    /\ rejections = 0
    /\ boundChecks = 0

\* lines 50-82: one call of the helper, at the time now
HelperCall ==
    /\ pc = "helper"
    /\ boundChecks < MaxReads
    /\ result' = checkLimitAndTimeout(cfg.default, startTime, cfg.timeout,
                                      tries, cfg.limit, now)
    /\ boundChecks' = boundChecks + 1
    /\ UNCHANGED << cfg, pc, now, startTime, tries, rawInput, userInput,
                    output, outcome, reads, applyCalls, validCalls, postCalls,
                    rejections >>

\* time passes between two calls
HelperTick ==
    /\ pc = "helper"
    /\ now < MaxTime
    /\ now' = now + 1
    /\ UNCHANGED << cfg, pc, startTime, tries, rawInput, userInput, output,
                    outcome, result, counters >>

NextHelper == HelperCall \/ HelperTick

SpecHelper == InitHelper /\ [][NextHelper]_vars

(***************************************************************************)
(* inputInt, lines 208-221: the wrapper binds validateNum to its bounds,   *)
(* runs _genericInput and converts what it returns.                        *)
(***************************************************************************)
\* lines 215-219: the arguments inputInt passes to _genericInput
inputIntConfig(default, blank, timeout, limit, min, max) ==
    [ prompt |-> StrV(<<"?">>), default |-> default, blank |-> blank,
      timeout |-> timeout, limit |-> limit, strip |-> BoolV(TRUE),
      applyFunc |-> NoneV,
      validationFunc |-> [ type |-> "function", name |-> "validateNum",
                           blank |-> blank, min |-> min, max |-> max,
                           numType |-> "int" ],
      postValidateApplyFunc |-> NoneV ]

\* the bounds min and max of the calls
Ranges == { << IntV(1), IntV(10) >>, << IntV(7), IntV(7) >>, << NoneV, NoneV >> }

InputIntConfigs ==
    { inputIntConfig(d, b, t, l, r[1], r[2]) :
        d \in { NoneV, StrV(<<"5">>), StrV(<<"a">>) }, b \in BOOLEAN,
        t \in { NoneV, IntV(MaxTimeout) },
        l \in { NoneV, IntV(1), IntV(MaxLimit) }, r \in Ranges }

\* the lines the user may type to inputInt
IntLines == { <<>>, <<"7">>, <<"1", "5">>, <<"a">>, <<" ", "7">> }

\* the call binds validateNum with _numType=numType: the wrapper that runs
bindsNum(numType) ==
    IF cfg.validationFunc.name = "validateNum"
    THEN cfg.validationFunc.numType = numType ELSE FALSE

\* variant: the text is returned as it is
pyIntOfFloat_unconverted(v) == v

\* line 221: int(float(result))
pyIntOfFloat(v) ==
    LET f == pyFloat(v.val) IN
    IF f.type = "float" THEN IntV(f.mant \div Pow10(f.exp)) ELSE f

InitInputInt ==
    /\ cfg \in InputIntConfigs
    /\ pc = "init"
    /\ now = 0
    /\ startTime = 0
    /\ tries = 0
    /\ rawInput = <<>>
    /\ userInput = <<>>
    /\ output = <<>>
    /\ outcome = "none"
    /\ result = NoneV
    /\ reads = 0
    /\ applyCalls = 0
    /\ validCalls = 0
    /\ postCalls = 0
    /\ rejections = 0
    /\ boundChecks = 0

\* lines 217-221: _genericInput has returned or raised; inputInt returns the
\* converted value, or the exception goes on to its caller
\* variant: a default that the loop returned is passed on as it is
inputIntReturn_keepsDefault ==
    /\ pc = "done"
    /\ bindsNum("int")
    /\ pc' = "returned"
    /\ IF outcome \in {"exception", "default"}
       THEN UNCHANGED << outcome, result >>
       ELSE /\ result' = pyIntOfFloat(result)
            /\ outcome' = IF result'.type = "ValueError"
                          THEN "exception" ELSE outcome
    /\ UNCHANGED << cfg, now, startTime, tries, rawInput, userInput, output,
                    counters >>

inputIntReturn ==
    /\ pc = "done"
    /\ bindsNum("int")
    /\ pc' = "returned"
    /\ IF outcome = "exception"
       THEN UNCHANGED << outcome, result >>
       ELSE /\ result' = pyIntOfFloat(result)
            /\ outcome' = IF result'.type = "ValueError"
                          THEN "exception" ELSE outcome
    /\ UNCHANGED << cfg, now, startTime, tries, rawInput, userInput, output,
                    counters >>

NextInputInt ==
    \/ Call
    \/ Tick
    \/ \E line \in IntLines : BlankDefault(line)
    \/ \E line \in IntLines : Accept(line)
    \/ \E line \in IntLines : Reject(line)
    \/ inputIntReturn

SpecInputInt == InitInputInt /\ [][NextInputInt]_vars

(***************************************************************************)
(* The wrappers that convert the result: inputNum (lines 189-205),         *)
(* inputInt (208-221), inputFloat (224-237) and inputYesNo (386-395).      *)
(***************************************************************************)
\* lines 196-200: the arguments inputNum passes to _genericInput
inputNumConfig(default, blank, timeout, limit, min, max) ==
    [ inputIntConfig(default, blank, timeout, limit, min, max)
        EXCEPT !.validationFunc.numType = "num" ]

\* lines 231-235: the arguments inputFloat passes to _genericInput
inputFloatConfig(default, blank, timeout, limit, min, max) ==
    [ inputIntConfig(default, blank, timeout, limit, min, max)
        EXCEPT !.validationFunc.numType = "float" ]

\* lines 390-394: the arguments inputYesNo passes to _genericInput
inputYesNoConfig(default, blank, timeout, limit) ==
    [ inputIntConfig(default, blank, timeout, limit, NoneV, NoneV)
        EXCEPT !.validationFunc = [ type |-> "function",
                                    name |-> "validateYesNo",
                                    blank |-> blank ] ]

\* the defaults of the wrapper calls: none, empty, not a number, a decimal,
\* a whole number
WrapperDefaults ==
    { NoneV, StrV(<<>>), StrV(<<"a">>), StrV(<<"1", ".", "5">>), StrV(<<"7">>) }

WrapperConfigs ==
    UNION { { inputNumConfig(d, b, t, l, NoneV, NoneV),
              inputIntConfig(d, b, t, l, NoneV, NoneV),
              inputFloatConfig(d, b, t, l, NoneV, NoneV),
              inputYesNoConfig(d, b, t, l) } :
            d \in WrapperDefaults, b \in BOOLEAN,
            t \in { NoneV, IntV(MaxTimeout) }, l \in { NoneV, IntV(1) } }

\* the lines the user may type to a wrapper
WrapperLines ==
    { <<>>, <<" ">>, <<"7">>, <<"1", ".", "5">>, <<"a">>, <<"n", "o">> }

\* str.upper() of one character
pyUpper(c) ==
    CASE c = "a" -> "A" [] c = "e" -> "E" [] c = "n" -> "N" [] c = "o" -> "O"
      [] c = "s" -> "S" [] c = "y" -> "Y" [] OTHER -> c

\* lines 202-205: float(result) if '.' in result, else int(result)
pyNum(v) == IF "." \in charsOf(v.val) THEN pyFloat(v.val) ELSE pyInt(v.val)

\* line 395: result[0].upper(); indexing the empty text raises IndexError
pyFirstUpper(v) ==
    IF v.val = <<>> THEN ExcV("IndexError") ELSE StrV(<< pyUpper(v.val[1]) >>)

InitWrappers ==
    /\ cfg \in WrapperConfigs
    /\ pc = "init"
    /\ now = 0
    /\ startTime = 0
    /\ tries = 0
    /\ rawInput = <<>>
    /\ userInput = <<>>
    /\ output = <<>>
    /\ outcome = "none"
    /\ result = NoneV
    /\ reads = 0
    /\ applyCalls = 0
    /\ validCalls = 0
    /\ postCalls = 0
    /\ rejections = 0
    /\ boundChecks = 0

\* lines 198-205: _genericInput has returned or raised; inputNum returns the
\* converted value, or the exception goes on to its caller
inputNumReturn ==
    /\ pc = "done"
    /\ bindsNum("num")
    /\ pc' = "returned"
    /\ IF outcome = "exception"
       THEN UNCHANGED << outcome, result >>
       ELSE /\ result' = pyNum(result)
            /\ outcome' = IF result'.type = "ValueError"
                          THEN "exception" ELSE outcome
    /\ UNCHANGED << cfg, now, startTime, tries, rawInput, userInput, output,
                    counters >>

\* lines 233-237: the same for inputFloat
inputFloatReturn ==
    /\ pc = "done"
    /\ bindsNum("float")
    /\ pc' = "returned"
    /\ IF outcome = "exception"
       THEN UNCHANGED << outcome, result >>
       ELSE /\ result' = pyFloat(result.val)
            /\ outcome' = IF result'.type = "ValueError"
                          THEN "exception" ELSE outcome
    /\ UNCHANGED << cfg, now, startTime, tries, rawInput, userInput, output,
                    counters >>

\* lines 392-395: the same for inputYesNo
inputYesNoReturn ==
    /\ pc = "done"
    /\ cfg.validationFunc.name = "validateYesNo"
    /\ pc' = "returned"
    /\ IF outcome = "exception"
       THEN UNCHANGED << outcome, result >>
       ELSE /\ result' = pyFirstUpper(result)
            /\ outcome' = IF result'.type = "IndexError"
                          THEN "exception" ELSE outcome
    /\ UNCHANGED << cfg, now, startTime, tries, rawInput, userInput, output,
                    counters >>

NextWrappers ==
    \/ Call
    \/ Tick
    \/ \E line \in WrapperLines : BlankDefault(line)
    \/ \E line \in WrapperLines : Accept(line)
    \/ \E line \in WrapperLines : Reject(line)
    \/ inputNumReturn
    \/ inputIntReturn
    \/ inputFloatReturn
    \/ inputYesNoReturn

SpecWrappers == InitWrappers /\ [][NextWrappers]_vars

TypeOK ==
    /\ cfg \in Configs
    /\ pc \in {"init", "input", "done"}
    /\ now \in 0..MaxTime
    /\ tries \in 0..MaxReads
    /\ outcome \in {"none", "value", "default", "exception"}

(***************************************************************************)
(* Properties.                                                             *)
(***************************************************************************)
\* the first prompt has been written: the loop has started
started == Len(output) > 0
noDefault == isNone(cfg.default)
alwaysRejects == cfg.validationFunc = FuncV("rejectAll")
\* the timeout is set and more than timeout has elapsed since startTime
expired == cfg.timeout.type = "int" /\ now - startTime > cfg.timeout.val
\* the limit is set and tries has reached it
exhausted == cfg.limit.type = "int" /\ tries >= cfg.limit.val
Max(a, b) == IF a >= b THEN a ELSE b
\* the number of rejection reasons printed
reasons == Cardinality({ i \in 1..Len(output) : output[i] = "reason" })

\* C1 as stated: with limit = N >= 1, no default and a validation function
\* that rejects every input, the session reads exactly N lines and then
\* raises RetryLimitException, whatever the rest of the configuration is.
C1_ExactlyLimitReads ==
    (started /\ cfg.limit.type = "int" /\ cfg.limit.val >= 1
       /\ noDefault /\ alwaysRejects)
    => /\ pc = "input" => reads < cfg.limit.val
       /\ pc = "done" => reads = cfg.limit.val
                         /\ result = ExcV("RetryLimitException")

\* C1 as amended: with limit = N, no default and a validation function that
\* rejects every input, the session ends with RetryLimitException after
\* exactly N reads (one read when N < 1) unless the timeout has expired at a
\* rejected attempt; it then ends with TimeoutException at that attempt,
\* after at most N reads.  Nothing else ends the session.
C1_LimitReadsUnlessTimeout ==
    (started /\ cfg.limit.type = "int" /\ noDefault /\ alwaysRejects)
    => LET N == Max(cfg.limit.val, 1) IN
       /\ pc = "input" => reads < N
       /\ pc = "done" => result \in { ExcV("RetryLimitException"),
                                      ExcV("TimeoutException") }
       /\ result = ExcV("RetryLimitException") => reads = N /\ ~expired
       /\ result = ExcV("TimeoutException") => reads <= N /\ expired

C1_Witness ==
    /\ cfg.limit = IntV(2) /\ noDefault /\ alwaysRejects
    /\ pc = "done" /\ reads = 2
    /\ result = ExcV("RetryLimitException")

\* C2: with a default set, no TimeoutException or RetryLimitException is
\* ever raised, and a rejected attempt on which the timeout has expired or
\* tries has reached the limit returns the default.
C2_DefaultAbsorbsBound ==
    /\ [](~noDefault => ~isException(result))
    /\ [][ (~noDefault /\ rejections' = rejections + 1
              /\ (expired' \/ exhausted'))
           => (pc' = "done" /\ outcome' = "default" /\ result' = cfg.default)
       ]_vars

C2_Witness ==
    /\ ~noDefault /\ pc = "done" /\ outcome = "default"
    /\ rejections = reads /\ reads = 2 /\ exhausted /\ ~expired

\* C3: with a default set, a line that is empty after the strip policy
\* ends the session on that attempt with the default; applyFunc and the
\* validation function are not called on that attempt (they have been
\* called once on each earlier attempt only), whatever blank is and
\* whether or not the validation function accepts the empty string.
C3_BlankReturnsDefaultUnvalidated ==
    (reads >= 1 /\ ~noDefault /\ stripInput(cfg.strip, rawInput) = <<>>)
    => /\ pc = "done"
       /\ outcome = "default"
       /\ result = cfg.default
       /\ validCalls = reads - 1
       /\ applyCalls = (IF isNone(cfg.applyFunc) THEN 0 ELSE reads - 1)
       /\ rejections = reads - 1

C3_Witness ==
    /\ cfg.default = StrV(<<"9">>) /\ cfg.blank
    /\ cfg.validationFunc = FuncV("acceptBlank4")
    /\ cfg.applyFunc = FuncV("replaceA4")
    /\ cfg.strip = BoolV(TRUE) /\ rawInput = <<" ">>
    /\ reads = 2 /\ validCalls = 1 /\ applyCalls = 1
    /\ outcome = "default" /\ result = StrV(<<"9">>)

\* C4: with timeout = T, no default and a validation function that rejects
\* every input, an attempt made once more than T has elapsed since
\* startTime raises TimeoutException, whatever limit is.
C4_TimeoutRaisedAfterExpiry ==
    [][ (pc = "input" /\ reads' = reads + 1 /\ ~isNone(cfg.timeout)
           /\ noDefault /\ alwaysRejects
           /\ now - startTime > cfg.timeout.val)
        => (pc' = "done" /\ outcome' = "exception"
              /\ result' = ExcV("TimeoutException")) ]_vars

C4_Witness ==
    /\ cfg.timeout = IntV(1) /\ noDefault /\ alwaysRejects
    /\ cfg.limit = IntV(2) /\ ~exhausted
    /\ pc = "done" /\ reads = 1 /\ now - startTime = 2
    /\ result = ExcV("TimeoutException")

\* C5: on a rejected attempt on which the timeout has expired and tries has
\* reached limit, with no default, TimeoutException is raised and not
\* RetryLimitException.
C5_TimeoutBeforeLimit ==
    [][ (pc = "input" /\ rejections' = rejections + 1 /\ noDefault
           /\ expired' /\ exhausted')
        => (pc' = "done" /\ outcome' = "exception"
              /\ result' = ExcV("TimeoutException")) ]_vars

C5_Witness ==
    /\ noDefault /\ expired /\ exhausted /\ cfg.limit.val >= 1
    /\ pc = "done" /\ rejections = reads
    /\ result = ExcV("TimeoutException")

\* C6: a call that returns an accepted candidate has called
\* postValidateApplyFunc (when given) exactly once, on that candidate, and
\* returns its result; in every other state (waiting for a retry, ended
\* with the default or with an exception) it has been called zero times.
C6_PostTransformOnce ==
    LET post == cfg.postValidateApplyFunc IN
    /\ outcome = "value"
       => /\ userInput \in Accepted(cfg.validationFunc.name)
          /\ postCalls = (IF isNone(post) THEN 0 ELSE 1)
          /\ result = (IF isNone(post) THEN StrV(userInput)
                       ELSE StrV(CallFunc(post, userInput)))
    /\ outcome # "value" => postCalls = 0

C6_Witness ==
    /\ outcome = "value" /\ cfg.postValidateApplyFunc = FuncV("double")
    /\ rejections = 1 /\ reads = 2 /\ postCalls = 1
    /\ userInput = <<"4">> /\ result = StrV(<<"4", "4">>)

\* C7: a session whose loop has started ends with the accepted candidate,
\* with the default, or with TimeoutException or RetryLimitException, and
\* with nothing else.
C7_ThreeOutcomes ==
    (pc = "done" /\ started)
    => \/ outcome \in {"value", "default"} /\ ~isException(result)
       \/ outcome = "exception" /\ isException(result)

\* the constraints on the arguments: prompt is text, default is text or
\* absent, timeout and limit are positive numbers or absent, strip is
\* disabled, whitespace-trim or a character set, the validation function
\* and the two optional transforms are callable
WellFormed(c) ==
    /\ c.prompt.type = "str"
    /\ c.default.type \in {"str", "NoneType"}
    /\ c.timeout.type = "NoneType" \/ (c.timeout.type = "int" /\ c.timeout.val > 0)
    /\ c.limit.type = "NoneType" \/ (c.limit.type = "int" /\ c.limit.val > 0)
    /\ c.strip.type \in {"str", "NoneType", "bool"}
    /\ c.validationFunc.type = "function"
    /\ c.applyFunc.type \in {"function", "NoneType"}
    /\ c.postValidateApplyFunc.type \in {"function", "NoneType"}

\* C8: a configuration that violates the constraints is rejected with a
\* configuration error before the first prompt is written and before any
\* line is read.
C8_MalformedRejectedBeforeLoop ==
    ~WellFormed(cfg)
    => /\ pc # "input"
       /\ output = <<>>
       /\ reads = 0
       /\ pc = "done" => result = ExcV("PyInputPlusException")

\* C9: input that passes validation after the time limit has been exceeded
\* is discarded: the default, or None when there is no default, is returned
\* instead.
C9_LateValidInputDiscarded ==
    (pc = "done" /\ validCalls = rejections + 1 /\ expired)
    => (outcome # "value" /\ result = cfg.default)

\* C10 as stated: the number of reasons printed equals the number of
\* attempts on which validation rejected the candidate.
C10_EveryRejectionPrinted == reasons = rejections

\* the session has ended on a rejected attempt, by a bound
endedOnBound == pc = "done" /\ started /\ reads >= 1 /\ rejections = reads

\* C10 as amended: the reason of a rejection is printed at once, before the
\* next prompt, on every rejected attempt that reaches no bound; the
\* rejected attempt that reaches a bound prints nothing.  The number of
\* reasons printed is the number of rejections, less one when the session
\* has ended on a bound.
C10_RejectionPrintedUnlessBound ==
    /\ reasons = rejections - (IF endedOnBound THEN 1 ELSE 0)
    /\ started => /\ Len(output) = 2 * reasons + 1
                  /\ \A i \in 1..Len(output) :
                        output[i] = (IF i % 2 = 1 THEN "prompt" ELSE "reason")

C10_Witness ==
    /\ endedOnBound /\ rejections = 2 /\ reasons = 1
    /\ result = ExcV("RetryLimitException")

\* C11: the exception raised by validationFunc is never what the caller
\* receives: every rejection ends in a retry (the session blocks in input()
\* again), in the default being returned, or in TimeoutException or
\* RetryLimitException being raised.
C11_RejectionNeverEscapes ==
    /\ [](result # validationError(cfg.validationFunc, userInput))
    /\ [][ rejections' = rejections + 1
           => \/ pc' = "input" /\ outcome' = "none"
              \/ pc' = "done" /\ outcome' = "default" /\ result' = cfg.default
              \/ pc' = "done" /\ outcome' = "exception"
                 /\ result' \in { ExcV("TimeoutException"),
                                  ExcV("RetryLimitException") } ]_vars

C11_Witness ==
    /\ rejections = 2 /\ reads = 2 /\ pc = "done"
    /\ outcome = "exception" /\ result = ExcV("RetryLimitException")
    /\ cfg.validationFunc = FuncV("accept4")

\* C13: tries is 0 when the session starts, changes only by 1 and only
\* together with a line being read, and so equals the number of lines read;
\* startTime is assigned by the call, before the first prompt, and never
\* changes afterwards.
C13_SessionState ==
    /\ [](tries = reads)
    /\ [][ /\ tries' # tries => tries' = tries + 1 /\ reads' = reads + 1
           /\ reads' # reads => tries' = tries + 1
           /\ pc = "init" /\ pc' = "input"
                => tries' = 0 /\ startTime' = now /\ output' = << "prompt" >>
           /\ pc # "init" => startTime' = startTime ]_vars

C13_Witness ==
    /\ pc = "input" /\ tries = 2 /\ reads = 2
    /\ startTime = 0 /\ now = 2

\* C12: the result of _checkLimitAndTimeout is determined by its five
\* arguments: a call with the same arguments as the call before returns the
\* same result.  (The arguments never change under SpecHelper.)
C12_HelperDeterministic ==
    [][ (boundChecks >= 1 /\ boundChecks' = boundChecks + 1)
        => result' = result ]_vars

\* C16: the decision table of _checkLimitAndTimeout.  If timeout is set and
\* now - startTime > timeout, the result is the default when one is set and
\* else a TimeoutException; otherwise, if limit is set and tries >= limit,
\* the result is the default when one is set and else a
\* RetryLimitException; otherwise the result is None.
C16_DecisionTable ==
    [][ boundChecks' = boundChecks + 1
        => result' =
             (IF cfg.timeout # NoneV /\ now - startTime > cfg.timeout.val
              THEN (IF cfg.default # NoneV THEN cfg.default
                    ELSE ExcV("TimeoutException"))
              ELSE IF cfg.limit # NoneV /\ tries >= cfg.limit.val
              THEN (IF cfg.default # NoneV THEN cfg.default
                    ELSE ExcV("RetryLimitException"))
              ELSE NoneV) ]_vars

\* the helper has been called when the elapsed time equals the timeout and
\* no limit is set: no bound is reached
C16_Witness ==
    /\ pc = "helper" /\ boundChecks >= 1
    /\ cfg.timeout = IntV(1) /\ now - startTime = 1
    /\ cfg.limit = NoneV /\ cfg.default = NoneV
    /\ result = NoneV

\* C14: every exception the module raises on purpose (the configuration
\* error, TimeoutException, RetryLimitException) is an instance of
\* PyInputPlusException.
C14_AllUnderBaseClass ==
    (outcome = "exception"
       /\ result.type \in {"PyInputPlusException", "TimeoutException",
                           "RetryLimitException"})
    => isInstance(result, "PyInputPlusException")

\* C17: a rejection prints its reason exactly when the session goes on to
\* the next prompt, i.e. when no bound is reached, and nothing else prints
\* a reason; a session with limit = N >= 1, no default, no timeout and a
\* validation function that rejects every input has printed N - 1 reasons
\* when it raises RetryLimitException.
C17_ReasonOnlyOnRetry ==
    /\ [][ /\ rejections' = rejections + 1
              => (reasons' = reasons + 1 <=> pc' = "input")
           /\ reasons' # reasons
              => (reasons' = reasons + 1 /\ rejections' = rejections + 1)
       ]_vars
    /\ []( (pc = "done" /\ started /\ cfg.limit # NoneV /\ cfg.limit.val >= 1
              /\ cfg.timeout = NoneV /\ noDefault /\ alwaysRejects)
           => (result = ExcV("RetryLimitException")
                 /\ reasons = cfg.limit.val - 1) )

C17_Witness ==
    /\ cfg.limit = IntV(2) /\ cfg.timeout = NoneV /\ noDefault /\ alwaysRejects
    /\ pc = "done" /\ reads = 2 /\ reasons = 1
    /\ output = << "prompt", "reason", "prompt" >>
    /\ result = ExcV("RetryLimitException")

C19_BlankNotShortCircuited ==
    LET stripped == stripInput(cfg.strip, rawInput)
        calls == IF isNone(cfg.applyFunc) THEN 0 ELSE reads
    IN
    /\ (reads >= 1 /\ noDefault /\ stripped = <<>>)
       => /\ validCalls = reads /\ applyCalls = calls
          /\ outcome # "default"
          /\ outcome = "value"
             => userInput \in Accepted(cfg.validationFunc.name)
          /\ userInput \notin Accepted(cfg.validationFunc.name)
             => rejections = reads
    /\ (reads >= 1 /\ ~noDefault /\ stripped # <<>>
          /\ applyTransform(cfg.applyFunc, stripped) = <<>>)
       => /\ validCalls = reads /\ applyCalls = calls
          /\ userInput = <<>>
          /\ outcome = "default"
             => (rejections = reads /\ (expired \/ exhausted))
          /\ <<>> \in Accepted(cfg.validationFunc.name)
             => outcome \in {"value", "exception"} /\ ~isException(result)

C19_Witness ==
    /\ noDefault /\ cfg.strip = BoolV(TRUE) /\ rawInput = <<" ">>
    /\ cfg.applyFunc = FuncV("replaceA4")
    /\ cfg.validationFunc = FuncV("acceptBlank4")
    /\ reads = 1 /\ validCalls = 1 /\ applyCalls = 1
    /\ outcome = "value" /\ result = StrV(<<>>)

\* C20: when limit is set, whatever its sign, the session reads at most
\* max(limit, 1) lines, whatever is typed and whatever validationFunc does:
\* it is never blocked in input() with tries >= limit.
C20_LimitBoundsReads ==
    cfg.limit.type = "int"
    => /\ reads <= Max(cfg.limit.val, 1)
       /\ (pc = "input" => reads < Max(cfg.limit.val, 1))
       /\ (pc = "input" /\ reads >= 1 => tries < cfg.limit.val)

C20_Witness ==
    /\ cfg.limit = IntV(0) /\ pc = "done" /\ reads = 1 /\ rejections = 1
    /\ cfg.validationFunc = FuncV("accept4")
    /\ outcome \in {"default", "exception"}

\* the bounds of the inputInt call
minOf == cfg.validationFunc.min
maxOf == cfg.validationFunc.max
\* the line, stripped, is a number within / outside the bounds
inRange(line) ==
    LET v == pystrip(line, Whitespace) IN
    /\ isNumber(v)
    /\ (IF isNone(minOf) THEN TRUE ELSE parseInt(v) >= minOf.val)
    /\ (IF isNone(maxOf) THEN TRUE ELSE parseInt(v) <= maxOf.val)
outOfRange(line) == isNumber(pystrip(line, Whitespace)) /\ ~inRange(line)

\* C15 as stated: every input outside [min, max] is rejected, its reason is
\* printed and the loop prompts again; the first input within the bounds
\* ends the session and is returned as an integer.
C15_OutOfRangeRetried ==
    /\ [][ (pc = "input" /\ reads' = reads + 1 /\ outOfRange(rawInput'))
           => (rejections' = rejections + 1 /\ reasons' = reasons + 1
                 /\ pc' = "input") ]_vars
    /\ []( (pc = "returned" /\ inRange(rawInput))
           => result = IntV(parseInt(pystrip(rawInput, Whitespace))) )

\* C15 as amended: an input outside [min, max] is rejected; unless that
\* attempt reaches a bound (the timeout has expired or tries has reached
\* limit), its reason is printed and the loop prompts again, and if it does
\* reach a bound the session ends without printing.  An input within the
\* bounds ends the session on the attempt it is typed and inputInt returns
\* it as an integer.
C15_OutOfRangeRetriedUnlessBound ==
    /\ [][ (pc = "input" /\ reads' = reads + 1 /\ outOfRange(rawInput'))
           => /\ rejections' = rejections + 1
              /\ ~(expired' \/ exhausted')
                 => /\ reasons' = reasons + 1
                    /\ pc' = "input"
                    /\ output' = output \o << "reason", "prompt" >>
              /\ (expired' \/ exhausted')
                 => (pc' = "done" /\ output' = output) ]_vars
    /\ [][ (pc = "input" /\ reads' = reads + 1 /\ inRange(rawInput'))
           => (pc' = "done" /\ outcome' = "value" /\ rejections' = rejections
                 /\ result' = StrV(pystrip(rawInput', Whitespace))) ]_vars
    /\ []( (pc = "returned" /\ inRange(rawInput))
           => (outcome = "value"
                 /\ result = IntV(parseInt(pystrip(rawInput, Whitespace)))) )

\* min=1, max=10: one input was rejected with its reason printed, then "7"
\* was typed and the integer 7 returned after two reads
C15_Witness ==
    /\ minOf = IntV(1) /\ maxOf = IntV(10)
    /\ cfg.limit = NoneV /\ cfg.timeout = NoneV /\ noDefault
    /\ pc = "returned" /\ reads = 2 /\ rejections = 1
    /\ output = << "prompt", "reason", "prompt" >>
    /\ rawInput = <<"7">> /\ result = IntV(7)

\* C21: when the loop returns the default, on the blank path or on the bound
\* path, the value returned is the configured default itself: it is not
\* stripped and neither applyFunc nor postValidateApplyFunc is applied to
\* it.  On the blank path no callback runs at all; on the bound path
\* applyFunc ran on the typed line only and postValidateApplyFunc did not run.
C21_DefaultReturnedUnchanged ==
    /\ [](outcome = "default" => (result = cfg.default /\ postCalls = 0))
    /\ [][ (outcome = "none" /\ outcome' = "default")
           => /\ result' = cfg.default
              /\ postCalls' = postCalls
              /\ rejections' = rejections
                 => (applyCalls' = applyCalls /\ validCalls' = validCalls)
              /\ rejections' = rejections + 1
                 => userInput' = applyTransform(cfg.applyFunc,
                                     stripInput(cfg.strip, rawInput')) ]_vars

\* the default " a", which strip=True, replaceA4 and double would all change,
\* has been returned as it is after a blank line
C21_Witness ==
    /\ cfg.default = StrV(<<" ", "a">>) /\ cfg.strip = BoolV(TRUE)
    /\ cfg.applyFunc = FuncV("replaceA4")
    /\ cfg.postValidateApplyFunc = FuncV("double")
    /\ rawInput = <<" ">> /\ reads = 1 /\ rejections = 0
    /\ pc = "done" /\ outcome = "default" /\ result = StrV(<<" ", "a">>)

\* neither bound is configured
unbounded == isNone(cfg.timeout) /\ isNone(cfg.limit)

\* C22: with timeout and limit both None the bound check always answers
\* None: the session never raises TimeoutException or RetryLimitException
\* and never returns the default after a rejection.  Once started it ends
\* only on a blank stripped line with a default set, or on a candidate that
\* validationFunc accepts; every rejection prints its reason and prompts
\* again, however much time has passed and however many lines were read.
C22_UnboundedNeverSignals ==
    /\ []( unbounded
           => /\ ~isException(result)
              /\ outcome = "default"
                 => /\ rejections = reads - 1
                    /\ validCalls = reads - 1
                    /\ ~noDefault
                    /\ stripInput(cfg.strip, rawInput) = <<>>
              /\ (pc = "done" /\ started /\ outcome # "default")
                 => /\ outcome \in {"value", "exception"}
                    /\ rejections = reads - 1
                    /\ validates(cfg.validationFunc, userInput) )
    /\ [][ (unbounded /\ rejections' = rejections + 1)
           => /\ pc' = "input"
              /\ outcome' = "none"
              /\ output' = output \o << "reason", "prompt" >> ]_vars

\* no bound, no default, every line rejected, the clock has run: after
\* MaxReads rejected lines the loop is prompting again
C22_Witness ==
    /\ unbounded /\ noDefault /\ alwaysRejects
    /\ now = MaxTime
    /\ reads = MaxReads /\ rejections = MaxReads /\ boundChecks = MaxReads
    /\ pc = "input" /\ outcome = "none"
    /\ reasons = MaxReads /\ Len(output) = 2 * MaxReads + 1

\* the call is one of inputNum, inputInt, inputFloat
numeric == cfg.validationFunc.name = "validateNum"
\* what the numeric wrapper that runs makes of the defaults "7" and "1.5"
numberOf(default) ==
    IF default = StrV(<<"7">>)
    THEN IF bindsNum("float") THEN FloatV(7, 0) ELSE IntV(7)
    ELSE IF bindsNum("int") THEN IntV(1) ELSE FloatV(15, 1)

\* C23: inputNum, inputInt, inputFloat and inputYesNo convert whatever
\* _genericInput returns, a default returned on blank input or on a reached
\* bound included.  A default that is a number comes back as that number
\* and any other default ends the numeric wrappers with ValueError; the
\* empty default ends inputYesNo with IndexError and any other default
\* comes back as its first character in upper case.  The text of the
\* default itself is never what a numeric wrapper returns.
C23_WrappersConvertDefault ==
    /\ [][ (pc = "done" /\ pc' = "returned" /\ outcome = "default")
           => /\ result = cfg.default
              /\ IF numeric
                 THEN IF cfg.default \in { StrV(<<"7">>), StrV(<<"1", ".", "5">>) }
                      THEN /\ outcome' = "default"
                           /\ result' = numberOf(cfg.default)
                      ELSE /\ outcome' = "exception"
                           /\ result' = ExcV("ValueError")
                 ELSE IF cfg.default = StrV(<<>>)
                      THEN /\ outcome' = "exception"
                           /\ result' = ExcV("IndexError")
                      ELSE /\ outcome' = "default"
                           /\ result' \in { StrV(<<"A">>), StrV(<<"1">>),
                                            StrV(<<"7">>) }
                           /\ result'.val[1] \in { cfg.default.val[1], "A" } ]_vars
    /\ []( (pc = "returned" /\ outcome # "exception")
           => IF numeric
              THEN result.type \in {"int", "float"}
              ELSE (result.type = "str" /\ Len(result.val) = 1) )

\* inputInt with the default "a" and limit=1: the one line typed was
\* rejected, the loop returned the default and the call ended in ValueError
C23_Witness ==
    /\ bindsNum("int") /\ cfg.default = StrV(<<"a">>) /\ cfg.limit = IntV(1)
    /\ pc = "returned" /\ reads = 1 /\ rejections = 1
    /\ outcome = "exception" /\ result = ExcV("ValueError")

====
